---- MODULE Spec2Model ----
(***************************************************************************)
(* Model of src/main.rs of range-perf: the wrapping sum `calc`, the        *)
(* iterator DynamicInclusiveRange<u64> (new / next) and the six benchmark  *)
(* cases registered by `ranges`.                                           *)
(*                                                                         *)
(* u64 is scaled down to W bits: every value lives in 0..MaxVal and every  *)
(* addition the code performs is reduced modulo 2^W, with a flag recording *)
(* whether the mathematical result left the representable range.           *)
(*                                                                         *)
(* Three specifications share the variables:                               *)
(*   SpecIter  drives DynamicInclusiveRange::new and repeated next() calls *)
(*             for every (from, inclusive_to) pair;                        *)
(*   SpecCalc  applies calc to arbitrary finite sequences;                 *)
(*             calc's fold takes one step per next() call;                 *)
(*   Spec      runs the six benchmark routines of `ranges` in order.       *)
(***************************************************************************)
EXTENDS Integers, Sequences, FiniteSets

\* Width in bits of the scaled-down unsigned integer type (u64 in the source).
W == 6

\* How many further next() calls are made after the first None (SpecIter).
MaxPolls == 2

\* Longest input sequence handed to calc (SpecCalc).
MaxLen == 3

Modulus == 2 ^ W

\* u64::max_value()
MaxVal == Modulus - 1

\* Option<u64>
None == [some |-> FALSE, val |-> 0]

Some(v) == [some |-> TRUE, val |-> v]

VARIABLES
    low,        \* SpecIter: argument `from` of DynamicInclusiveRange::new
    high,       \* SpecIter: argument `inclusive_to` of DynamicInclusiveRange::new
    iter,       \* SpecIter: the DynamicInclusiveRange value
    item,       \* SpecIter: result of the latest next() call
    out,        \* SpecIter: the values yielded so far, in order
    polls,      \* SpecIter: number of next() calls that returned None
    ovf,        \* SpecIter: some addition's mathematical result exceeded MaxVal
    input,      \* SpecCalc: the sequence handed to calc
    sum,        \* SpecCalc: the value calc returned
    pc,         \* calc: "call" before it is entered, "fold" inside, "done" after
    cit,        \* calc: the iterator being folded
    acc,        \* calc: the accumulator of the fold
    base,       \* Spec: the lower bound the setup closure yields (literal 1 in the source)
    top,        \* Spec: the upper bound `ranges` is built around (u64::max_value() in the source)
    idx,        \* Spec: index of the next benchmark case to run
    results     \* Spec: the sums returned by the cases run so far

vars ==
    <<low, high, iter, item, out, polls, ovf, input, sum, pc, cit, acc,
      base, top, idx, results>>

iterVars == <<low, high, iter, item, out, polls, ovf>>

calcVars == <<input, sum, pc, cit, acc>>

benchVars == <<base, top, idx, results>>

----------------------------------------------------------------------------
\* Arithmetic

\* Addition carried out in a wider type, never reduced (mutant).
non_wrapping_add(x, y) == x + y

\* u64::saturating_add in place of wrapping_add (mutant).
saturating_add(x, y) == IF x + y > MaxVal THEN MaxVal ELSE x + y

\* u64::wrapping_add
wrapping_add(x, y) == (x + y) % Modulus

\* The mathematical result of x + y is not representable.
Overflows(x, y) == x + y > MaxVal

----------------------------------------------------------------------------
\* std::ops::Range<u64> and std::ops::RangeInclusive<u64> as iterators

MkRange(start, end) == [kind |-> "Range", start |-> start, end |-> end]

MkRangeInclusive(start, end) ==
    [kind |-> "RangeInclusive", start |-> start, end |-> end, exhausted |-> FALSE]

\* Range::next: yields start and advances while start < end.
RangeNext(r) ==
    IF r.start < r.end
    THEN [it   |-> [r EXCEPT !.start = wrapping_add(r.start, 1)],
          item |-> Some(r.start),
          ovf  |-> Overflows(r.start, 1)]
    ELSE [it |-> r, item |-> None, ovf |-> FALSE]

\* An inclusive range that advances its cursor after every element and has
\* no exhausted flag (mutant).
RangeInclusiveNextNoFlag(r) ==
    IF r.start <= r.end
    THEN [it   |-> [r EXCEPT !.start = wrapping_add(r.start, 1)],
          item |-> Some(r.start),
          ovf  |-> Overflows(r.start, 1)]
    ELSE [it |-> r, item |-> None, ovf |-> FALSE]

\* RangeInclusive::next: yields start; advances only while start < end and
\* marks itself exhausted when it yields end.
RangeInclusiveNext(r) ==
    IF r.exhausted \/ ~(r.start <= r.end)
    THEN [it |-> r, item |-> None, ovf |-> FALSE]
    ELSE IF r.start < r.end
         THEN [it   |-> [r EXCEPT !.start = wrapping_add(r.start, 1)],
               item |-> Some(r.start),
               ovf  |-> Overflows(r.start, 1)]
         ELSE [it   |-> [r EXCEPT !.exhausted = TRUE],
               item |-> Some(r.start),
               ovf  |-> FALSE]

----------------------------------------------------------------------------
\* DynamicInclusiveRange<u64>

\* new() that always builds the exclusive representation (mutant).
new_always_non_inclusive(from, inclusive_to) ==
    [it  |-> [kind |-> "Dynamic", variant |-> "NonInclusive",
              r |-> MkRange(from, wrapping_add(inclusive_to, 1))],
     ovf |-> Overflows(inclusive_to, 1)]

\* new() that forgets the + 1 on the exclusive end (mutant).
new_end_not_incremented(from, inclusive_to) ==
    IF inclusive_to = MaxVal
    THEN [it  |-> [kind |-> "Dynamic", variant |-> "Inclusive",
                   r |-> MkRangeInclusive(from, inclusive_to)],
          ovf |-> FALSE]
    ELSE [it  |-> [kind |-> "Dynamic", variant |-> "NonInclusive",
                   r |-> MkRange(from, inclusive_to)],
          ovf |-> FALSE]

\* new() that already switches representation at max - 1 (mutant).
new_early_threshold(from, inclusive_to) ==
    IF inclusive_to >= MaxVal - 1
    THEN [it  |-> [kind |-> "Dynamic", variant |-> "Inclusive",
                   r |-> MkRangeInclusive(from, inclusive_to)],
          ovf |-> FALSE]
    ELSE [it  |-> [kind |-> "Dynamic", variant |-> "NonInclusive",
                   r |-> MkRange(from, wrapping_add(inclusive_to, 1))],
          ovf |-> Overflows(inclusive_to, 1)]

\* DynamicInclusiveRange::new
new(from, inclusive_to) ==
    IF inclusive_to = MaxVal
    THEN [it  |-> [kind |-> "Dynamic", variant |-> "Inclusive",
                   r |-> MkRangeInclusive(from, inclusive_to)],
          ovf |-> FALSE]
    ELSE [it  |-> [kind |-> "Dynamic", variant |-> "NonInclusive",
                   r |-> MkRange(from, wrapping_add(inclusive_to, 1))],
          ovf |-> Overflows(inclusive_to, 1)]

\* <DynamicInclusiveRange<u64> as Iterator>::next
next(self) ==
    LET n == IF self.variant = "Inclusive"
             THEN RangeInclusiveNext(self.r)
             ELSE RangeNext(self.r)
    IN  [it |-> [self EXCEPT !.r = n.it], item |-> n.item, ovf |-> n.ovf]

----------------------------------------------------------------------------
\* calc

\* An iterator over an explicit finite sequence.
MkSeqIter(s) == [kind |-> "Seq", rest |-> s]

SeqNext(self) ==
    IF self.rest = <<>>
    THEN [it |-> self, item |-> None, ovf |-> FALSE]
    ELSE [it |-> [self EXCEPT !.rest = Tail(self.rest)],
          item |-> Some(Head(self.rest)), ovf |-> FALSE]

\* Iterator::next, statically dispatched on the iterator type.
IterNext(it) ==
    CASE it.kind = "Range"          -> RangeNext(it)
      [] it.kind = "RangeInclusive" -> RangeInclusiveNext(it)
      [] it.kind = "Dynamic"        -> next(it)
      [] it.kind = "Seq"            -> SeqNext(it)

\* The fold started from 1 (mutant).
fold_init_one == 0 + 1

\* The initial accumulator of the fold: 0u64.
fold_init == 0

\* calc is entered with iterator `it`: the fold starts.
CalcEnter(it) ==
    /\ cit' = it
    /\ acc' = fold_init
    /\ pc' = "fold"

\* One round of the fold: next() yields Some(y) and the closure
\* |x, y| x.wrapping_add(y) updates the accumulator.
FoldSome ==
    /\ pc = "fold"
    /\ LET n == IterNext(cit)
       IN  /\ n.item.some
           /\ cit' = n.it
           /\ acc' = wrapping_add(acc, n.item.val)
    /\ UNCHANGED <<pc, input, sum>>
    /\ UNCHANGED iterVars
    /\ UNCHANGED benchVars

\* next() yields None: the fold, and with it calc, returns the accumulator.
FoldEnds == pc = "fold" /\ ~IterNext(cit).item.some

----------------------------------------------------------------------------
\* Values the variables of a specification hold while another one runs.

NoIter == [kind |-> "none"]

IdleIter ==
    /\ low = 0 /\ high = 0 /\ iter = NoIter /\ item = None
    /\ out = <<>> /\ polls = 0 /\ ovf = FALSE

IdleCalc == input = <<>> /\ sum = 0 /\ pc = "-" /\ cit = NoIter /\ acc = 0

IdleBench == base = 0 /\ top = 0 /\ idx = 0 /\ results = <<>>

----------------------------------------------------------------------------
\* SpecIter: DynamicInclusiveRange::new followed by repeated next() calls.

InitIter ==
    /\ low \in 0..MaxVal
    /\ high \in 0..MaxVal
    /\ iter = new(low, high).it
    /\ ovf = new(low, high).ovf
    /\ item = None
    /\ out = <<>>
    /\ polls = 0
    /\ IdleCalc
    /\ IdleBench

\* One call of next() on the dynamic range.
CallNext ==
    /\ polls <= MaxPolls
    /\ LET n == next(iter)
       IN  /\ iter' = n.it
           /\ item' = n.item
           /\ out' = IF n.item.some THEN Append(out, n.item.val) ELSE out
           /\ polls' = IF n.item.some THEN polls ELSE polls + 1
           /\ ovf' = (ovf \/ n.ovf)
    /\ UNCHANGED <<low, high>>
    /\ UNCHANGED calcVars
    /\ UNCHANGED benchVars

NextIter == CallNext

SpecIter == InitIter /\ [][NextIter]_vars

----------------------------------------------------------------------------
\* SpecCalc: calc applied to an arbitrary finite sequence of W-bit values.

\* Element values: both ends of the range and the half-way point.
CalcVals == {0, 1, 2 ^ (W - 1), MaxVal - 1, MaxVal}

SeqsUpTo(n) == UNION {[1..k -> CalcVals] : k \in 0..n}

InitCalc ==
    /\ input \in SeqsUpTo(MaxLen)
    /\ sum = 0
    /\ pc = "call"
    /\ cit = NoIter
    /\ acc = 0
    /\ IdleIter
    /\ IdleBench

CallCalc ==
    /\ pc = "call"
    /\ CalcEnter(MkSeqIter(input))
    /\ UNCHANGED <<input, sum>>
    /\ UNCHANGED iterVars
    /\ UNCHANGED benchVars

CalcReturn ==
    /\ FoldEnds
    /\ sum' = acc
    /\ pc' = "done"
    /\ UNCHANGED <<input, cit, acc>>
    /\ UNCHANGED iterVars
    /\ UNCHANGED benchVars

NextCalc == CallCalc \/ FoldSome \/ CalcReturn

SpecCalc == InitCalc /\ [][NextCalc]_vars

----------------------------------------------------------------------------
\* Spec: the benchmark group registered by `ranges`.  The harness calls each
\* routine many times; a routine is a pure function of the pair its setup
\* closure yields, so one call per case is modelled.  The literal 1 of the
\* setup closure and the u64::max_value() of `ranges` are generalised to
\* `base` and `top`; the source's run is base = 1, top = MaxVal.

\* The closure returned by get_low_and_up(up).
get_low_and_up(up) == <<base, up>>

\* make_inclusive written with `..` instead of `..=` (mutant).
make_inclusive_exclusive_typo(up) ==
    LET p == get_low_and_up(up) IN MkRange(p[1], p[2])

\* make_non_inclusive: the iterator its routine hands to calc, low..up.
make_non_inclusive(up) ==
    LET p == get_low_and_up(up) IN MkRange(p[1], p[2])

\* make_inclusive: the iterator its routine hands to calc, low..=up.
make_inclusive(up) ==
    LET p == get_low_and_up(up) IN MkRangeInclusive(p[1], p[2])

\* make_dynamic: the iterator its routine hands to calc,
\* DynamicInclusiveRange::new(low, up).
make_dynamic(up) ==
    LET p == get_low_and_up(up) IN new(p[1], p[2]).it

\* The vector of cases `ranges` hands to bench_functions.
ranges ==
    << [fun |-> "non-inclusive", up |-> top - 1],
       [fun |-> "inclusive",     up |-> top - 1],
       [fun |-> "dynamic",       up |-> top - 1],
       [fun |-> "non-inclusive", up |-> top],
       [fun |-> "inclusive",     up |-> top],
       [fun |-> "dynamic",       up |-> top] >>

NumCases == Len(ranges)

Init ==
    /\ base \in 0..MaxVal
    /\ top \in 1..MaxVal
    /\ idx = 1
    /\ results = <<>>
    /\ input = <<>>
    /\ sum = 0
    /\ pc = "call"
    /\ cit = NoIter
    /\ acc = 0
    /\ IdleIter

\* The routine of case idx starts: setup yields the pair, the iterator is
\* built and handed to calc.
RunNonInclusive ==
    /\ pc = "call"
    /\ idx <= NumCases
    /\ ranges[idx].fun = "non-inclusive"
    /\ CalcEnter(make_non_inclusive(ranges[idx].up))
    /\ UNCHANGED <<input, sum>>
    /\ UNCHANGED benchVars
    /\ UNCHANGED iterVars

RunInclusive ==
    /\ pc = "call"
    /\ idx <= NumCases
    /\ ranges[idx].fun = "inclusive"
    /\ CalcEnter(make_inclusive(ranges[idx].up))
    /\ UNCHANGED <<input, sum>>
    /\ UNCHANGED benchVars
    /\ UNCHANGED iterVars

RunDynamic ==
    /\ pc = "call"
    /\ idx <= NumCases
    /\ ranges[idx].fun = "dynamic"
    /\ CalcEnter(make_dynamic(ranges[idx].up))
    /\ UNCHANGED <<input, sum>>
    /\ UNCHANGED benchVars
    /\ UNCHANGED iterVars

\* calc returns to the routine of case idx; the harness moves to the next case.
RoutineReturn ==
    /\ FoldEnds
    /\ results' = Append(results, acc)
    /\ idx' = idx + 1
    /\ pc' = "call"
    /\ UNCHANGED <<base, top, input, sum, cit, acc>>
    /\ UNCHANGED iterVars

Next == RunNonInclusive \/ RunInclusive \/ RunDynamic \/ FoldSome \/ RoutineReturn

Spec == Init /\ [][Next]_vars

\* Every registered case has returned.
AllRun == idx = NumCases + 1

----------------------------------------------------------------------------
\* Reference values the properties compare the code's results with.

\* The sequence low, low+1, ..., high (empty when low > high).
Enum(a, b) == IF a <= b THEN [i \in 1..(b - a + 1) |-> a + i - 1] ELSE <<>>

\* max(0, high - low + 1)
Count(a, b) == IF a <= b THEN b - a + 1 ELSE 0

RECURSIVE SumOf(_)
\* The mathematical (unbounded) sum of a sequence.
SumOf(s) == IF s = <<>> THEN 0 ELSE Head(s) + SumOf(Tail(s))

\* The elements of `input` the fold has consumed so far.
Consumed == SubSeq(input, 1, Len(input) - Len(cit.rest))

\* The upper bound of the group of three cases starting after case g.
GroupUp(g) == ranges[g + 1].up

----------------------------------------------------------------------------
\* Properties of DynamicInclusiveRange (SpecIter)

\* C1: the values next() yields until its first None are exactly
\* low, low+1, ..., high in ascending order (nothing when low > high), with
\* no element missing, repeated or outside [low, high], in either variant.
C1_EnumeratesExactly ==
    /\ \A i \in 1..Len(out) : out[i] = low + i - 1 /\ out[i] <= high
    /\ polls >= 1 => out = Enum(low, high)

\* The benchmark's pair (1, max), held in the Inclusive variant, fully drained.
C1_Witness ==
    /\ low = 1 /\ high = MaxVal /\ polls = 1
    /\ iter.variant = "Inclusive" /\ out = Enum(1, MaxVal)

\* C2: new() selects the Inclusive representation iff inclusive_to is the
\* maximum value, otherwise the NonInclusive one with start = from and
\* exclusive end = inclusive_to + 1; next() never changes the variant.
C2_StateOk ==
    /\ iter.variant \in {"Inclusive", "NonInclusive"}
    /\ (iter.variant = "Inclusive") <=> (high = MaxVal)
    /\ iter.variant = "Inclusive" =>
          /\ iter.r.kind = "RangeInclusive"
          /\ iter.r.end = high
          /\ (out = <<>> /\ polls = 0) => (iter.r.start = low /\ ~iter.r.exhausted)
    /\ iter.variant = "NonInclusive" =>
          /\ iter.r.kind = "Range"
          /\ iter.r.end = high + 1
          /\ (out = <<>> /\ polls = 0) => iter.r.start = low

C2_Representation ==
    [](C2_StateOk) /\ [][iter'.variant = iter.variant]_vars

\* A NonInclusive range one below the maximum that next() has drained.
C2_Witness ==
    /\ high = MaxVal - 1 /\ low = 1 /\ polls >= 1
    /\ iter.variant = "NonInclusive" /\ iter.r.end = MaxVal

\* C3: building and draining the dynamic range never performs an addition
\* whose mathematical result exceeds the maximum value; for high = max it
\* still yields exactly [low, max], and its cursor stays within 0..max.
C3_NoOverflow ==
    /\ ~ovf
    /\ iter.r.start \in 0..MaxVal
    /\ iter.r.end \in 0..MaxVal
    /\ (high = MaxVal /\ polls >= 1) => out = Enum(low, MaxVal)

\* high = max, at least two elements yielded, the range drained.
C3_Witness ==
    /\ high = MaxVal /\ low < high /\ polls >= 1
    /\ Len(out) = Count(low, high) /\ out[Len(out)] = MaxVal

\* C10: repeated next() calls end: the first None comes after exactly
\* max(0, high - low + 1) Some results, each Some value is one greater than
\* the one before, and once None was returned every later call returns None
\* and leaves the iterator as it is.
C10_StateOk ==
    /\ Len(out) <= Count(low, high)
    /\ polls >= 1 => (Len(out) = Count(low, high) /\ item = None)
    /\ (polls = 0 /\ out # <<>>) => item = Some(out[Len(out)])
    /\ \A i \in 2..Len(out) : out[i] = out[i - 1] + 1

C10_StepOk ==
    polls >= 1 => (iter' = iter /\ item' = None /\ out' = out /\ polls' = polls + 1)

C10_ExhaustedForGood == [](C10_StateOk) /\ [][C10_StepOk]_vars

\* A range ending at max polled again after its first None.
C10_Witness ==
    /\ high = MaxVal /\ low <= high /\ polls = MaxPolls + 1
    /\ iter.variant = "Inclusive" /\ iter.r.exhausted

----------------------------------------------------------------------------
\* Properties of calc (SpecCalc)

\* C4: calc returns the sum of all elements reduced modulo 2^W (a left fold
\* with wrapping addition from 0), returns 0 for the empty sequence, and its
\* accumulator never leaves 0..MaxVal.
C4_WrappingSum ==
    /\ acc \in 0..MaxVal
    /\ sum \in 0..MaxVal
    /\ pc = "fold" => acc = SumOf(Consumed) % Modulus
    /\ pc = "done" => sum = SumOf(input) % Modulus
    /\ (pc = "done" /\ input = <<>>) => sum = 0

\* calc has returned for a sequence whose mathematical sum is not representable.
C4_Witness ==
    /\ pc = "done" /\ Len(input) = MaxLen
    /\ SumOf(input) > MaxVal /\ sum = SumOf(input) % Modulus

----------------------------------------------------------------------------
\* Properties of the benchmark cases (Spec)

\* C5 as stated: the three cases built for one upper bound produce the same
\* sum (checked on the source's own pair: low = 1, upper bounds max - 1, max).
C5_AsStated ==
    (AllRun /\ base = 1 /\ top = MaxVal) =>
        /\ results[1] = results[2] /\ results[2] = results[3]
        /\ results[4] = results[5] /\ results[5] = results[6]

\* C5 amended: for each registered upper bound the inclusive and the dynamic
\* case produce the same sum; the non-inclusive case sums low..up, which
\* leaves out `up`, so its sum plus `up` (wrapping) is the others' sum when
\* low <= up, and all three sums are 0 when low > up.
C5_Amended ==
    AllRun =>
        \A g \in {0, 3} :
            /\ results[g + 2] = results[g + 3]
            /\ base <= GroupUp(g) =>
                   results[g + 2] = (results[g + 1] + GroupUp(g)) % Modulus
            /\ base > GroupUp(g) =>
                   (results[g + 1] = 0 /\ results[g + 2] = 0)

\* The source's run has finished and the non-inclusive sums differ.
C5_Witness ==
    /\ AllRun /\ base = 1 /\ top = MaxVal
    /\ results[4] # results[5] /\ results[1] # results[2]

\* C6: for every pair, the dynamic case's sum equals the inclusive case's
\* sum, in particular for (1, max - 1) and (1, max).
C6_DynamicEqualsInclusive ==
    /\ Len(results) >= 3 => results[3] = results[2]
    /\ Len(results) >= 6 => results[6] = results[5]

\* Both boundary pairs (1, max - 1) and (1, max) have been summed.
C6_Witness ==
    /\ AllRun /\ base = 1 /\ top = MaxVal
    /\ results[3] = results[2] /\ results[6] = results[5] /\ results[6] # 0

\* C7: for low <= high < max, the exclusive range over [low, high + 1) and
\* the inclusive range over [low, high] have the same wrapping sum
\* (case 4 is low..top, case 2 is low..=(top - 1)).
C7_ExclusiveEqualsInclusive ==
    (Len(results) >= 4 /\ base <= top - 1) => results[4] = results[2]

\* A pair with at least two elements whose sum wraps.
C7_Witness ==
    /\ Len(results) >= 4 /\ base < top - 1
    /\ SumOf(Enum(base, top - 1)) > MaxVal
    /\ results[4] = SumOf(Enum(base, top - 1)) % Modulus

\* C8 as stated: with low = 1 and high = 10 the non-inclusive, the inclusive
\* and the dynamic case all yield 55.
C8_AsStated ==
    (AllRun /\ base = 1 /\ top = 10) =>
        (results[4] = 55 /\ results[5] = 55 /\ results[6] = 55)

\* C8 amended: with low = 1 and high = 10 the inclusive and the dynamic case
\* yield 55; the non-inclusive case, built as low..up = 1..10, yields 45, and
\* the exclusive range yields 55 when built over [1, 11).
C8_Amended ==
    /\ (AllRun /\ base = 1 /\ top = 10) =>
           (results[4] = 45 /\ results[5] = 55 /\ results[6] = 55)
    /\ (AllRun /\ base = 1 /\ top = 11) =>
           (results[4] = 55 /\ results[2] = 55 /\ results[3] = 55)

\* The three cases for the pair (1, 10) have returned.
C8_Witness == AllRun /\ base = 1 /\ top = 10 /\ results[4] = 45

\* C9: the two-element sequence [max - 1, max], summed by the inclusive and
\* by the dynamic case, yields ((max - 1) + max) mod 2^W = 2^W - 3: the
\* addition wraps, it is neither widened nor trapped.
C9_Wraparound ==
    /\ acc \in 0..MaxVal
    /\ (base = MaxVal - 1 /\ top = MaxVal /\ Len(results) >= 5) =>
           results[5] = Modulus - 3
    /\ (base = MaxVal - 1 /\ top = MaxVal /\ Len(results) >= 6) =>
           results[6] = Modulus - 3

\* Both cases returned for the pair (max - 1, max).
C9_Witness ==
    /\ AllRun /\ base = MaxVal - 1 /\ top = MaxVal
    /\ results[5] = Modulus - 3 /\ results[6] = Modulus - 3

====
